---- MODULE Spec2Model ----
(***************************************************************************)
(* Model of snli/CPP/attentive_rnn.h: the LookupLayer (embedding table)    *)
(* and the plain RNN cell with its training loop.                          *)
(*                                                                         *)
(* Numbers.  The code computes on doubles.  The model computes on          *)
(* integers with exact arithmetic: sums and products are the code's sums   *)
(* and products, restricted to integer values, and floating-point rounding *)
(* is left out.  The three real-valued primitives the header takes from    *)
(* nn_utils.h / <cmath> (EvaluateActivation, DerivateActivation and the    *)
(* softmax exp(y - LogSumExp(y))) are replaced by integer staircases of    *)
(* the same shape; the literal 1.0 of the softmax gradient and of the      *)
(* logistic derivative is the integer One.                                 *)
(*                                                                         *)
(* Matrices are functions [0..rows-1 -> [0..cols-1 -> Int]], vectors are   *)
(* functions [0..n-1 -> Int]; indices are the code's 0-based indices.      *)
(***************************************************************************)
EXTENDS Integers, Sequences, FiniteSets, TLC

(* ------------------------------ sizes --------------------------------- *)
\* Dictionary::GetNumWords(): the vocabulary size V; E_ has V+1 columns.
NumWords == 2
\* embedding_dimension, hidden_size, output_size given to the constructor.
EmbeddingDimension == 2
HiddenSize == 3
OutputSize == 2
\* Longest input sequence, largest training set, most epochs explored.
MaxLen == 2
MaxTrain == 2
MaxEpochs == 2

(* --------------------------- number helpers --------------------------- *)
Abs(a) == IF a < 0 THEN -a ELSE a
Min2(a, b) == IF a < b THEN a ELSE b
Max2(a, b) == IF a < b THEN b ELSE a
Clamp(a, lo, hi) == Max2(lo, Min2(a, hi))
\* C++ conversion of a quotient to the grid: rounds toward zero.
TruncDiv(a, b) == IF a >= 0 THEN a \div b ELSE -((-a) \div b)

(* ------------------------ vectors and matrices ------------------------ *)
\* Vector::Zero(n) and Matrix::Zero(r, c).
VZero(n) == [i \in 0..(n-1) |-> 0]
MZero(r, c) == [i \in 0..(r-1) |-> [j \in 0..(c-1) |-> 0]]
\* A default-constructed Eigen matrix or vector: 0 x 0.
Empty == <<>>
Size(v) == Cardinality(DOMAIN v)
Rows(M) == Cardinality(DOMAIN M)
Cols(M) == IF Rows(M) = 0 THEN 0 ELSE Cardinality(DOMAIN M[0])
\* M.col(j) and the assignment M.col(j) = v.
Col(M, j) == [i \in DOMAIN M |-> M[i][j]]
SetCol(M, j, v) == [i \in DOMAIN M |-> [M[i] EXCEPT ![j] = v[i]]]
RECURSIVE SumTo(_, _)
\* f[0] + ... + f[n-1]
SumTo(f, n) == IF n = 0 THEN 0 ELSE SumTo(f, n-1) + f[n-1]
Dot(u, v) == SumTo([k \in DOMAIN u |-> u[k] * v[k]], Size(u))
\* M * v
MatVec(M, v) == [i \in DOMAIN M |-> Dot(M[i], v)]
\* M.transpose() * v
MatTVec(M, v) == [j \in 0..(Cols(M)-1) |-> SumTo([i \in DOMAIN M |-> M[i][j] * v[i]], Rows(M))]
\* u * v.transpose()
Outer(u, v) == [i \in DOMAIN u |-> [j \in DOMAIN v |-> u[i] * v[j]]]
VAdd(u, v) == [i \in DOMAIN u |-> u[i] + v[i]]
VSub(u, v) == [i \in DOMAIN u |-> u[i] - v[i]]
VScale(c, v) == [i \in DOMAIN v |-> c * v[i]]
\* u.array() * v.array()
VMul(u, v) == [i \in DOMAIN u |-> u[i] * v[i]]
MAdd(A, B) == [i \in DOMAIN A |-> [j \in DOMAIN A[i] |-> A[i][j] + B[i][j]]]
MSub(A, B) == [i \in DOMAIN A |-> [j \in DOMAIN A[i] |-> A[i][j] - B[i][j]]]
MScale(c, A) == [i \in DOMAIN A |-> [j \in DOMAIN A[i] |-> c * A[i][j]]]

(* ------------- numeric primitives taken from outside the header -------- *)
\* The value that stands for 1.0 where the code keeps a quantity in [0, 1]
\* (activations, probabilities): the literal 1.0 of line 306.
One == 2
\* Width of one stair of the activation staircases.
ActStep == 256
\* ActivationFunctions::LOGISTIC and one other kind (nn_utils.h).
ActivationKinds == {"LOGISTIC", "TANH"}
\* EvaluateActivation, elementwise on one raw value: a monotone saturating
\* staircase, 0..One for the logistic and -One..One otherwise.
Evaluate(kind, a) ==
  IF kind = "LOGISTIC"
  THEN Clamp(1 + (a \div ActStep), 0, One)
  ELSE Clamp(TruncDiv(2 * a, ActStep), -One, One)
\* DerivateActivation, elementwise, from the ACTIVATED value: s(1-s) for the
\* logistic, 1-s^2 otherwise, with One for 1.
Derivative(kind, s) ==
  IF kind = "LOGISTIC" THEN s * (One - s) ELSE One * One - s * s
EvaluateActivation(kind, v) == [i \in DOMAIN v |-> Evaluate(kind, v[i])]
DerivateActivation(kind, v) == [i \in DOMAIN v |-> Derivative(kind, v[i])]
RECURSIVE MaxTo(_, _)
\* max(v[0..n-1]), n >= 1
MaxTo(v, n) == IF n = 1 THEN v[0] ELSE Max2(MaxTo(v, n-1), v[n-1])
\* v.maxCoeff(&index): the lowest index of a largest coefficient.
ArgMax(v) == CHOOSE k \in DOMAIN v :
                /\ v[k] = MaxTo(v, Size(v))
                /\ \A m \in DOMAIN v : v[m] = v[k] => k <= m
\* p = exp(y - LogSumExp(y)) (lines 289-290) on the grid 0..One: a logit that
\* is the only largest one takes One, logits tied for the largest share it.
Softmax(v) ==
  LET top == MaxTo(v, Size(v))
      n == Cardinality({k \in DOMAIN v : v[k] = top})
  IN  [k \in DOMAIN v |-> IF v[k] = top THEN One \div n ELSE 0]

(* ------------------------- libc rand() -------------------------------- *)
\* RAND_MAX and the generator behind srand()/rand() (lines 124, 164): a linear
\* congruential generator; the state is the last value returned.
RAND_MAX == 32767
Rand(s) == (25173 * s + 13849) % (RAND_MAX + 1)
RECURSIVE RandN(_, _)
\* the state after n calls of rand()
RandN(s, n) == IF n = 0 THEN s ELSE Rand(RandN(s, n-1))
\* quotient rounded to the nearest integer (b > 0)
RoundDiv(a, b) == (2 * a + b) \div (2 * b)

(* ------------------------------ state --------------------------------- *)
VARIABLES
  activation_function,  \* RNN::activation_function_
  use_hidden_start,     \* RNN::use_hidden_start_
  E,                    \* LookupLayer::E_
  Wxh, Whh, Why,        \* RNN::Wxh_, Whh_, Why_
  bh, by, h0,           \* RNN::bh_, by_, h0_
  x, h, y, p,           \* the forward trace RNN::x_, h_, y_, p_
  weights, biases,      \* the caller's lists handed to CollectAllParameters:
  weight_names,         \*   pointers are the names of the members pointed to
  bias_names,
  input_sequence,       \* arguments of the running forward / backward pass
  output_label,
  learning_rate,
  t, hprev,             \* locals of RunForwardPass / RunBackwardPass
  dWhy, dWhh, dWxh, dby, dbh, dhnext, dx, dy,
  train, dev, test,     \* arguments of the running Train
  num_epochs,
  at_call,              \* the parameter values Train was called with
  epoch, i,             \* loop counters of Train and TrainEpoch
  accuracy, accuracy_dev, accuracy_test,  \* numbers of correct predictions
  out,                  \* the lines written to std::cout
  phase,                \* the loop of Train / TrainEpoch that is running
  pc,                   \* position of the single thread of control
  failure               \* why the process died, "none" while it lives

params == <<E, Wxh, Whh, Why, bh, by, h0>>
config == <<activation_function, use_hidden_start>>
lists == <<weights, biases, weight_names, bias_names>>
trace == <<x, h, y, p>>
call == <<input_sequence, output_label, learning_rate>>
fwdlocals == <<t, hprev>>
grads == <<dWhy, dWhh, dWxh, dby, dbh, dhnext, dx, dy>>
trainargs == <<train, dev, test, num_epochs, at_call>>
counters == <<epoch, i, accuracy, accuracy_dev, accuracy_test, phase>>
vars == <<config, params, trace, lists, call, fwdlocals, grads, trainargs,
          counters, out, pc, failure>>

(* ------------------------------ inputs -------------------------------- *)
\* Input::wid() of a token: the ids 0..V-1 of the dictionary, the id -1 that
\* addresses column 0, and the two nearest ids outside the table.
Wids == (-2)..NumWords
Labels == 0..(OutputSize - 1)
RECURSIVE SeqsUpTo(_, _)
\* the sequences over S of length at most n
SeqsUpTo(S, n) ==
  IF n = 0 THEN {<<>>}
  ELSE LET shorter == SeqsUpTo(S, n-1)
       IN  shorter \cup {Append(q, e) : q \in {r \in shorter : Len(r) = n-1}, e \in S}
Sentences == SeqsUpTo(Wids, MaxLen)
Examples == [seq : Sentences, label : Labels]
LearningRates == {1, 2}
\* token t of a sentence, by the code's 0-based index
Tok(sentence, k) == sentence[k + 1]

(* ------------------------- CollectAllParameters ----------------------- *)
\* Mutant: the list is not cleared.
ClearNothing(list) == list
\* std::vector::clear()
Clear(list) == SubSeq(list, 1, 0)
\* LookupLayer::CollectAllParameters on the four lists l (lines 29-35).
LookupCollect(l) ==
  [weights |-> Append(Clear(l.weights), "E_"),
   biases |-> Clear(l.biases),
   weight_names |-> Append(Clear(l.weight_names), "embeddings"),
   bias_names |-> Clear(l.bias_names)]
\* RNN::CollectAllParameters on the four lists l (lines 94-120).
RNNCollect(l, hidden_start) ==
  LET cleared == [weights |-> Clear(l.weights), biases |-> Clear(l.biases),
                  weight_names |-> Clear(l.weight_names),
                  bias_names |-> Clear(l.bias_names)]
      a == LookupCollect(cleared)
  IN  [weights |-> a.weights \o <<"Wxh_", "Whh_", "Why_">>,
       biases |-> a.biases \o <<"bh_", "by_">>
                    \o (IF hidden_start THEN <<"h0_">> ELSE <<>>),
       weight_names |-> a.weight_names \o <<"Wxh", "Whh", "Why">>,
       bias_names |-> a.bias_names \o <<"bh", "by">>
                    \o (IF hidden_start THEN <<"h0">> ELSE <<>>)]
\* Mutant: h0_ is not reallocated.
ZeroMembersKeepH0(hidden_start, oldh0) ==
  [E_ |-> MZero(EmbeddingDimension, NumWords + 1),
   Wxh_ |-> MZero(HiddenSize, EmbeddingDimension),
   Whh_ |-> MZero(HiddenSize, HiddenSize),
   Why_ |-> MZero(OutputSize, HiddenSize),
   bh_ |-> VZero(HiddenSize),
   by_ |-> VZero(OutputSize),
   h0_ |-> oldh0]
\* The members after the reallocations of lines 27 and 85-92, by member name;
\* h0_ is reallocated only under use_hidden_start_.
ZeroMembers(hidden_start, oldh0) ==
  [E_ |-> MZero(EmbeddingDimension, NumWords + 1),
   Wxh_ |-> MZero(HiddenSize, EmbeddingDimension),
   Whh_ |-> MZero(HiddenSize, HiddenSize),
   Why_ |-> MZero(OutputSize, HiddenSize),
   bh_ |-> VZero(HiddenSize),
   by_ |-> VZero(OutputSize),
   h0_ |-> IF hidden_start THEN VZero(HiddenSize) ELSE oldh0]
\* Lists a caller may hand in: used before, with anything in them.
StaleLists ==
  { [weights |-> <<>>, biases |-> <<>>, weight_names |-> <<>>, bias_names |-> <<>>],
    [weights |-> <<"Wxh_">>, biases |-> <<"by_", "by_">>,
     weight_names |-> <<"Wxh", "Wxh">>, bias_names |-> <<>>] }
CurrentLists ==
  [weights |-> weights, biases |-> biases,
   weight_names |-> weight_names, bias_names |-> bias_names]

(* ------------------------- InitializeParameters ----------------------- *)
\* max = coeff * sqrt(6.0 / (num_inputs + num_outputs)) (lines 154-160), as
\* the largest integer not above it.
InitMax(kind, rows, cols) ==
  LET coeff == IF kind = "LOGISTIC" THEN 4 ELSE 1
  IN  CHOOSE m \in 0..(3 * coeff) :
        /\ m * m * (rows + cols) <= 6 * coeff * coeff
        /\ (m + 1) * (m + 1) * (rows + cols) > 6 * coeff * coeff
\* Mutant: the "- 1.0" is missing.
RandomWeightUncentred(max, r) == RoundDiv(max * (2 * r), RAND_MAX)
\* t = max * (2.0 * rand() / RAND_MAX - 1.0) for the value r of rand()
\* (lines 163-164), rounded to the nearest integer.
RandomWeight(max, r) == RoundDiv(max * (2 * r - RAND_MAX), RAND_MAX)
\* The loops of lines 161-168 on a matrix of W's shape: entry (i, j) takes the
\* (i * cols + j + 1)-th value of rand() after state s.
FillMatrix(W, max, s) ==
  [a \in DOMAIN W |-> [b \in DOMAIN W[a] |->
      RandomWeight(max, RandN(s, a * Cols(W) + b + 1))]]
RECURSIVE FillAll(_, _, _, _, _)
\* The loop of line 151 over the pointers ws[k..], on the members m.
FillAll(kind, ws, k, m, s) ==
  IF k > Len(ws) THEN m
  ELSE LET W == m[ws[k]]
       IN  FillAll(kind, ws, k + 1,
                   [m EXCEPT ![ws[k]] = FillMatrix(W, InitMax(kind, Rows(W), Cols(W)), s)],
                   RandN(s, Rows(W) * Cols(W)))
RECURSIVE ZeroAll(_, _, _)
\* The loop of line 148 over the pointers bs[k..].
ZeroAll(bs, k, m) ==
  IF k > Len(bs) THEN m
  ELSE ZeroAll(bs, k + 1, [m EXCEPT ![bs[k]] = VZero(Size(m[bs[k]]))])
\* The members after InitializeParameters (lines 124-169, read_from_file
\* being false).
InitialMembers(kind, hidden_start, oldh0) ==
  LET l == RNNCollect([weights |-> <<>>, biases |-> <<>>,
                       weight_names |-> <<>>, bias_names |-> <<>>], hidden_start)
      m == ZeroMembers(hidden_start, oldh0)
  IN  FillAll(kind, l.weights, 1, ZeroAll(l.biases, 1, m), 1234)

(* --------------------------- LookupLayer ------------------------------ *)
\* Mutant: the column is addressed by the id itself.
WidOfNoOffset(sentence, k) == Tok(sentence, k)
\* 1 + input_sequence[t].wid() (lines 42 and 53)
WidOf(sentence, k) == 1 + Tok(sentence, k)
\* the assertion of line 43
WidInRange(Emb, wid) == wid >= 0 /\ wid < Cols(Emb)
RECURSIVE LookupLoop(_, _, _, _)
\* The loop of lines 41-45 from index k on: the matrix x, and the index of the
\* token whose assertion failed (-1 when none did).
LookupLoop(Emb, sentence, k, X) ==
  IF k >= Len(sentence) THEN [x |-> X, failed |-> -1]
  ELSE IF ~WidInRange(Emb, WidOf(sentence, k)) THEN [x |-> X, failed |-> k]
  ELSE LookupLoop(Emb, sentence, k + 1, SetCol(X, k, Col(Emb, WidOf(sentence, k))))
\* Mutant: the assertion of line 43 is compiled out and a token that would have
\* failed it is passed over.
RunForwardLookupLayerUnchecked(Emb, sentence) ==
  LET r == LookupLoop(Emb, sentence, 0, MZero(EmbeddingDimension, Len(sentence)))
  IN  [x |-> r.x, failed |-> -1]
\* LookupLayer::RunForwardLookupLayer (lines 38-46)
RunForwardLookupLayer(Emb, sentence) ==
  LookupLoop(Emb, sentence, 0, MZero(EmbeddingDimension, Len(sentence)))
\* Mutant: the update is subtracted from every column of E_.
UpdateColumnAll(Emb, wid, rate, dXcol) ==
  [a \in DOMAIN Emb |-> [b \in DOMAIN Emb[a] |-> Emb[a][b] - rate * dXcol[a]]]
\* E_.col(wid) -= learning_rate * dX.col(t) (line 54)
UpdateColumn(Emb, wid, rate, dXcol) ==
  SetCol(Emb, wid, VSub(Col(Emb, wid), VScale(rate, dXcol)))
\* Mutant: every column is written once, from its old value and the dX column
\* of the last position that names it.
UpdateLoopLastWins(Emb, sentence, dX, rate, k) ==
  [a \in DOMAIN Emb |-> [b \in DOMAIN Emb[a] |->
     LET at == {n \in k..(Len(sentence) - 1) : WidOf(sentence, n) = b}
     IN  IF at = {} THEN Emb[a][b]
         ELSE Emb[a][b] - rate * dX[a][CHOOSE n \in at : \A o \in at : o <= n]]]
RECURSIVE UpdateLoop(_, _, _, _, _)
\* The loop of lines 52-55 from index k on.
UpdateLoop(Emb, sentence, dX, rate, k) ==
  IF k >= Len(sentence) THEN Emb
  ELSE UpdateLoop(UpdateColumn(Emb, WidOf(sentence, k), rate, Col(dX, k)),
                  sentence, dX, rate, k + 1)
\* LookupLayer::RunBackwardLookupLayer (lines 48-56)
RunBackwardLookupLayer(Emb, sentence, dX, rate) ==
  UpdateLoop(Emb, sentence, dX, rate, 0)

(* ------------------------------ Init ---------------------------------- *)
\* The state after construction.  RNN(dictionary, ...) sets
\* activation_function_ = LOGISTIC and use_hidden_start_ = true (lines 71 and
\* 75); both are protected members that the default constructor of line 66
\* leaves to the class built on it, and the code branches on both (lines 90,
\* 108, 118, 155, 277, 334), so every value is a start.  The matrices and
\* vectors are default-constructed, 0 x 0.
Init ==
  /\ activation_function \in ActivationKinds
  /\ use_hidden_start \in BOOLEAN
  /\ E = Empty /\ Wxh = Empty /\ Whh = Empty /\ Why = Empty
  /\ bh = Empty /\ by = Empty /\ h0 = Empty
  /\ x = Empty /\ h = Empty /\ y = Empty /\ p = Empty
  /\ weights = <<>> /\ biases = <<>> /\ weight_names = <<>> /\ bias_names = <<>>
  /\ input_sequence = <<>> /\ output_label = 0 /\ learning_rate = 0
  /\ t = 0 /\ hprev = Empty
  /\ dWhy = Empty /\ dWhh = Empty /\ dWxh = Empty /\ dby = Empty
  /\ dbh = Empty /\ dhnext = Empty /\ dx = Empty /\ dy = Empty
  /\ train = <<>> /\ dev = <<>> /\ test = <<>> /\ num_epochs = 0
  /\ at_call = <<>>
  /\ epoch = 0 /\ i = 0
  /\ accuracy = 0 /\ accuracy_dev = 0 /\ accuracy_test = 0
  /\ phase = "none"
  /\ out = <<>>
  /\ pc = "idle"
  /\ failure = "none"

\* The members holding parameters, by member name.
CurrentMembers ==
  [E_ |-> E, Wxh_ |-> Wxh, Whh_ |-> Whh, Why_ |-> Why,
   bh_ |-> bh, by_ |-> by, h0_ |-> h0]
\* The parameters have been allocated by CollectAllParameters.
Allocated == Rows(Whh) > 0

(* ------------------ calls made by the owner of the RNN ---------------- *)
\* RNN::CollectAllParameters (lines 81-121), on the caller's lists.
CollectAllParameters ==
  /\ pc = "idle"
  /\ \E prior \in StaleLists \cup {CurrentLists} :
       LET l == RNNCollect(prior, use_hidden_start)
           m == ZeroMembers(use_hidden_start, h0)
       IN  /\ weights' = l.weights /\ biases' = l.biases
           /\ weight_names' = l.weight_names /\ bias_names' = l.bias_names
           /\ E' = m.E_ /\ Wxh' = m.Wxh_ /\ Whh' = m.Whh_ /\ Why' = m.Why_
           /\ bh' = m.bh_ /\ by' = m.by_ /\ h0' = m.h0_
  /\ UNCHANGED <<config, trace, call, fwdlocals, grads, trainargs, counters,
                 out, pc, failure>>

\* RNN::InitializeParameters (lines 123-170); its lists are locals.
InitializeParameters ==
  /\ pc = "idle"
  /\ LET m == InitialMembers(activation_function, use_hidden_start, h0)
     IN  /\ E' = m.E_ /\ Wxh' = m.Wxh_ /\ Whh' = m.Whh_ /\ Why' = m.Why_
         /\ bh' = m.bh_ /\ by' = m.by_ /\ h0' = m.h0_
  /\ UNCHANGED <<config, trace, lists, call, fwdlocals, grads, trainargs,
                 counters, out, pc, failure>>

(* ------------------------------- Train -------------------------------- *)
\* The data sets handed to Train.  Any one example alone as the training set
\* of one epoch; and the short training, dev and test sets over a few fixed
\* examples (a two-token one, a one-token one, one with an id outside the
\* table) with every number of epochs; and the one-token example followed by
\* the same sequence under the other label.
GoodLong == [seq |-> <<-1, -1>>, label |-> 1]
GoodShort == [seq |-> <<-1>>, label |-> 0]
BadId == [seq |-> <<NumWords>>, label |-> 0]
Relabelled == [seq |-> <<-1>>, label |-> 1]
TrainCalls ==
  [train : {<<e>> : e \in Examples}, dev : {<<>>}, test : {<<>>},
   num_epochs : {1}, learning_rate : LearningRates]
  \cup
  [train : {<<GoodShort, Relabelled>>}, dev : {<<>>}, test : {<<>>},
   num_epochs : {1}, learning_rate : LearningRates]
  \cup
  [train : SeqsUpTo({GoodLong, GoodShort, BadId}, MaxTrain),
   dev : {<<>>, <<GoodShort>>, <<BadId>>},
   test : {<<>>, <<GoodLong>>},
   num_epochs : 0..MaxEpochs, learning_rate : {1}]

\* Train is called (line 172); lines 182-183.
Train ==
  /\ pc = "idle" /\ out = <<>> /\ Allocated
  /\ \E a \in TrainCalls :
       /\ train' = a.train /\ dev' = a.dev /\ test' = a.test
       /\ num_epochs' = a.num_epochs /\ learning_rate' = a.learning_rate
  /\ at_call' = CurrentMembers
  /\ accuracy_dev' = 0 /\ i' = 0
  /\ phase' = "baseline" /\ pc' = "loop"
  /\ UNCHANGED <<config, params, trace, lists, input_sequence, output_label,
                 fwdlocals, grads, epoch, accuracy, accuracy_test, out, failure>>

\* Mutant: the training sweep goes through the examples from the last one.
CurrentSetBackwards ==
  IF phase = "train" THEN [k \in 1..Len(train) |-> train[Len(train) + 1 - k]]
  ELSE IF phase = "test" THEN test ELSE dev
\* The data set the running loop goes through.
CurrentSet == IF phase = "train" THEN train ELSE IF phase = "test" THEN test ELSE dev

\* The head of a loop over examples finds one more example (lines 184, 216,
\* 231, 242) and enters Run / RunForwardPass on it.
NextExample ==
  /\ pc = "loop" /\ i < Len(CurrentSet)
  /\ input_sequence' = CurrentSet[i + 1].seq
  /\ output_label' = CurrentSet[i + 1].label
  /\ pc' = "lookup"
  /\ UNCHANGED <<config, params, trace, lists, learning_rate, fwdlocals, grads,
                 trainargs, counters, out, failure>>

\* The initial-performance loop is over (lines 191-193); epoch = 0 (line 195).
BaselineDone ==
  /\ pc = "loop" /\ phase = "baseline" /\ i >= Len(dev)
  /\ out' = Append(out, [line |-> "initial", accuracy_dev |-> <<accuracy_dev, Len(dev)>>])
  /\ epoch' = 0
  /\ pc' = "epoch"
  /\ UNCHANGED <<config, params, trace, lists, call, fwdlocals, grads, trainargs,
                 i, accuracy, accuracy_dev, accuracy_test, phase, failure>>

\* The test of line 195 holds: TrainEpoch starts (lines 211-215).
TrainEpoch ==
  /\ pc = "epoch" /\ epoch < num_epochs
  /\ accuracy' = 0 /\ i' = 0
  /\ phase' = "train" /\ pc' = "loop"
  /\ UNCHANGED <<config, params, trace, lists, call, fwdlocals, grads, trainargs,
                 epoch, accuracy_dev, accuracy_test, out, failure>>

\* Mutant: the loop of line 195 is left one epoch late.
TrainReturnLate ==
  /\ pc = "epoch" /\ epoch > num_epochs
  /\ phase' = "none" /\ pc' = "idle"
  /\ UNCHANGED <<config, params, trace, lists, call, fwdlocals, grads, trainargs,
                 epoch, i, accuracy, accuracy_dev, accuracy_test, out, failure>>
\* The test of line 195 fails: Train returns.
TrainReturn ==
  /\ pc = "epoch" /\ epoch >= num_epochs
  /\ phase' = "none" /\ pc' = "idle"
  /\ UNCHANGED <<config, params, trace, lists, call, fwdlocals, grads, trainargs,
                 epoch, i, accuracy, accuracy_dev, accuracy_test, out, failure>>

\* The training sweep is over (lines 227-230).
SweepDone ==
  /\ pc = "loop" /\ phase = "train" /\ i >= Len(train)
  /\ accuracy_dev' = 0 /\ i' = 0
  /\ phase' = "dev"
  /\ UNCHANGED <<config, params, trace, lists, call, fwdlocals, grads, trainargs,
                 epoch, accuracy, accuracy_test, out, pc, failure>>

\* The dev pass is over (lines 238-241).
DevDone ==
  /\ pc = "loop" /\ phase = "dev" /\ i >= Len(dev)
  /\ accuracy_test' = 0 /\ i' = 0
  /\ phase' = "test"
  /\ UNCHANGED <<config, params, trace, lists, call, fwdlocals, grads, trainargs,
                 epoch, accuracy, accuracy_dev, out, pc, failure>>

\* Mutant: after the report of an epoch the initial-performance loop runs again.
ReportThenBaseline ==
  /\ pc = "loop" /\ phase = "test" /\ i >= Len(test)
  /\ out' = Append(out, [line |-> "epoch", epoch |-> epoch + 1,
                         accuracy |-> <<accuracy, Len(train)>>,
                         accuracy_dev |-> <<accuracy_dev, Len(dev)>>,
                         accuracy_test |-> <<accuracy_test, Len(test)>>])
  /\ epoch' = epoch + 1
  /\ i' = 0 /\ accuracy_dev' = 0
  /\ phase' = "baseline" /\ pc' = "loop"
  /\ UNCHANGED <<config, params, trace, lists, call, fwdlocals, grads, trainargs,
                 accuracy, accuracy_test, failure>>
\* The test pass is over; the report (lines 249-258); TrainEpoch returns and
\* the loop of line 195 counts the epoch.
Report ==
  /\ pc = "loop" /\ phase = "test" /\ i >= Len(test)
  /\ out' = Append(out, [line |-> "epoch", epoch |-> epoch + 1,
                         accuracy |-> <<accuracy, Len(train)>>,
                         accuracy_dev |-> <<accuracy_dev, Len(dev)>>,
                         accuracy_test |-> <<accuracy_test, Len(test)>>])
  /\ epoch' = epoch + 1
  /\ phase' = "none" /\ pc' = "epoch"
  /\ UNCHANGED <<config, params, trace, lists, call, fwdlocals, grads, trainargs,
                 i, accuracy, accuracy_dev, accuracy_test, failure>>

\* Run after its forward pass (lines 264-266) and the caller's comparison and
\* loop increment (lines 187-189, 234-236, 245-247).
RunReturn ==
  /\ pc = "ran" /\ phase # "train"
  /\ LET hit == IF output_label = ArgMax(p) THEN 1 ELSE 0
     IN  IF phase = "test"
         THEN accuracy_test' = accuracy_test + hit /\ UNCHANGED accuracy_dev
         ELSE accuracy_dev' = accuracy_dev + hit /\ UNCHANGED accuracy_test
  /\ i' = i + 1
  /\ pc' = "loop"
  /\ UNCHANGED <<config, params, trace, lists, call, fwdlocals, grads, trainargs,
                 epoch, accuracy, phase, out, failure>>

\* Mutant: the backward pass follows the forward pass of an evaluation too.
LossInEveryPhase ==
  /\ pc = "ran"
  /\ accuracy' = accuracy + (IF ArgMax(p) = output_label THEN 1 ELSE 0)
  /\ pc' = "seed"
  /\ UNCHANGED <<config, params, trace, lists, call, fwdlocals, grads, trainargs,
                 epoch, i, accuracy_dev, accuracy_test, phase, out, failure>>
\* TrainEpoch after the forward pass of a training example (lines 218-224).
Loss ==
  /\ pc = "ran" /\ phase = "train"
  /\ accuracy' = accuracy + (IF ArgMax(p) = output_label THEN 1 ELSE 0)
  /\ pc' = "seed"
  /\ UNCHANGED <<config, params, trace, lists, call, fwdlocals, grads, trainargs,
                 epoch, i, accuracy_dev, accuracy_test, phase, out, failure>>

(* --------------------------- RunForwardPass --------------------------- *)
\* What h_.col(-1) can hold when the sequence is empty and the read goes
\* through: the index is outside the matrix, the column is whatever lies there.
StrayColumns == {VZero(Rows(Whh)), [k \in 0..(Rows(Whh) - 1) |-> One]}

\* Mutant: an example whose lookup fails is passed over and the loop goes on.
ForwardLookupSkipping ==
  /\ pc = "lookup"
  /\ LET r == RunForwardLookupLayer(E, input_sequence)
     IN  /\ x' = r.x
         /\ IF r.failed >= 0
            THEN /\ t' = r.failed
                 /\ i' = i + 1 /\ pc' = "loop"
                 /\ UNCHANGED <<h, hprev>>
            ELSE /\ h' = MZero(Rows(Whh), Len(input_sequence))
                 /\ hprev' = IF use_hidden_start THEN h0 ELSE VZero(Rows(Whh))
                 /\ t' = 0
                 /\ pc' = "recur"
                 /\ UNCHANGED i
  /\ UNCHANGED <<config, params, y, p, lists, call, grads, trainargs, epoch,
                 accuracy, accuracy_dev, accuracy_test, phase, out, failure>>
\* Lines 270-277: the lookup, then h_ and hprev are set up.  The assertion of
\* line 43 ends the process at the first token that fails it.
ForwardLookup ==
  /\ pc = "lookup"
  /\ LET r == RunForwardLookupLayer(E, input_sequence)
     IN  /\ x' = r.x
         /\ IF r.failed >= 0
            THEN /\ t' = r.failed
                 /\ failure' = "InvalidTokenId" /\ pc' = "aborted"
                 /\ UNCHANGED <<h, hprev>>
            ELSE /\ h' = MZero(Rows(Whh), Len(input_sequence))
                 /\ hprev' = IF use_hidden_start THEN h0 ELSE VZero(Rows(Whh))
                 /\ t' = 0
                 /\ pc' = "recur"
                 /\ UNCHANGED failure
  /\ UNCHANGED <<config, params, y, p, lists, call, grads, trainargs, counters, out>>

\* the hidden state of one timestep (lines 280-282)
HiddenState(kind, W_xh, b_h, W_hh, xcol, hp) ==
  EvaluateActivation(kind, VAdd(VAdd(MatVec(W_xh, xcol), b_h), MatVec(W_hh, hp)))

\* One turn of the loop of lines 278-285.
ForwardStep ==
  /\ pc = "recur" /\ t < Len(input_sequence)
  /\ h' = SetCol(h, t, HiddenState(activation_function, Wxh, bh, Whh, Col(x, t), hprev))
  /\ hprev' = Col(h', t)
  /\ t' = t + 1
  /\ UNCHANGED <<config, params, x, y, p, lists, call, grads, trainargs, counters,
                 out, pc, failure>>

\* Mutant: the output is read from the first timestep.
ReadoutIndexFirst(sentence) == 0
\* the column of h_ the output is read from (line 287)
ReadoutIndex(sentence) == Len(sentence) - 1
\* y_ and p_ from a column of h_ (lines 288-290)
Logits(W_hy, b_y, hcol) == VAdd(MatVec(W_hy, hcol), b_y)

\* Lines 287-290 on a sequence that has a last timestep.
Readout ==
  /\ pc = "recur" /\ t >= Len(input_sequence) /\ Len(input_sequence) > 0
  /\ y' = Logits(Why, by, Col(h, ReadoutIndex(input_sequence)))
  /\ p' = Softmax(y')
  /\ pc' = "ran"
  /\ UNCHANGED <<config, params, x, h, lists, call, fwdlocals, grads, trainargs,
                 counters, out, failure>>

\* Lines 287-290 on the empty sequence: t = -1 and h_.col(-1) is outside h_,
\* which has no columns.  The access either stops the process (the matrix
\* library's index check) or goes through and yields a stray column.
ReadoutEmpty ==
  /\ pc = "recur" /\ t >= Len(input_sequence) /\ Len(input_sequence) = 0
  /\ \/ /\ failure' = "IndexOutOfRange" /\ pc' = "aborted"
        /\ UNCHANGED <<y, p>>
     \/ /\ \E stray \in StrayColumns :
             /\ y' = Logits(Why, by, stray)
             /\ p' = Softmax(y')
        /\ pc' = "ran"
        /\ UNCHANGED failure
  /\ UNCHANGED <<config, params, x, h, lists, call, fwdlocals, grads, trainargs,
                 counters, out>>

(* --------------------------- RunBackwardPass -------------------------- *)
\* dy = p_; dy[output_label] -= 1.0 (lines 304, 306)
SoftmaxGrad(prob, label) == [prob EXCEPT ![label] = @ - One]

\* Lines 296-309, given the column that h_.col(t) of line 307 reads.
SeedWith(hcol) ==
  /\ dy' = SoftmaxGrad(p, output_label)
  /\ dWhy' = MAdd(MZero(Rows(Why), Cols(Why)), Outer(dy', hcol))
  /\ dWhh' = MZero(Rows(Whh), Cols(Whh))
  /\ dWxh' = MZero(Rows(Wxh), Cols(Wxh))
  /\ dby' = VAdd(VZero(Rows(Why)), dy')
  /\ dbh' = VZero(Rows(Whh))
  /\ dhnext' = VAdd(VZero(Rows(Whh)), MatTVec(Why, dy'))
  /\ dx' = MZero(EmbeddingDimension, Len(input_sequence))
  /\ t' = Len(input_sequence) - 1
  /\ pc' = "bptt"

\* Lines 296-309 on a sequence that has a last timestep.
Seed ==
  /\ pc = "seed" /\ Len(input_sequence) > 0
  /\ SeedWith(Col(h, ReadoutIndex(input_sequence)))
  /\ UNCHANGED <<config, params, trace, lists, call, hprev, trainargs, counters,
                 out, failure>>

\* Lines 296-309 on the empty sequence: line 307 reads h_.col(-1) again.
SeedEmpty ==
  /\ pc = "seed" /\ Len(input_sequence) = 0
  /\ \/ /\ failure' = "IndexOutOfRange" /\ pc' = "aborted"
        /\ UNCHANGED <<grads, t>>
     \/ /\ \E stray \in StrayColumns : SeedWith(stray)
        /\ UNCHANGED failure
  /\ UNCHANGED <<config, params, trace, lists, call, hprev, trainargs, counters, out>>

\* dhraw of lines 313-316 for timestep k
DhRaw(kind, H, k, dh) == VMul(DerivateActivation(kind, Col(H, k)), dh)
\* Mutant: the test of line 320 is missing; timestep 0 accumulates with its own
\* hidden state.
AccumulateWhhAlways(dW, dhraw, H, k) ==
  MAdd(dW, Outer(dhraw, Col(H, IF k > 0 THEN k - 1 ELSE k)))
\* dWhh after lines 320-322 for timestep k
AccumulateWhh(dW, dhraw, H, k) ==
  IF k > 0 THEN MAdd(dW, Outer(dhraw, Col(H, k - 1))) ELSE dW

\* Mutant: the gradient is added to dhnext instead of replacing it.
NextDhnextAdded(W_hh, dhraw, old) == VAdd(old, MatTVec(W_hh, dhraw))
\* dhnext.noalias() = Whh_.transpose() * dhraw (line 323)
NextDhnext(W_hh, dhraw, old) == MatTVec(W_hh, dhraw)

\* One turn of the loop of lines 311-326.
BackwardStep ==
  /\ pc = "bptt" /\ t >= 0
  /\ LET dhraw == DhRaw(activation_function, h, t, dhnext)
     IN  /\ dWxh' = MAdd(dWxh, Outer(dhraw, Col(x, t)))
         /\ dbh' = VAdd(dbh, dhraw)
         /\ dWhh' = AccumulateWhh(dWhh, dhraw, h, t)
         /\ dhnext' = NextDhnext(Whh, dhraw, dhnext)
         /\ dx' = SetCol(dx, t, MatTVec(Wxh, dhraw))
  /\ t' = t - 1
  /\ UNCHANGED <<config, params, trace, lists, call, hprev, dWhy, dby, dy,
                 trainargs, counters, out, pc, failure>>

\* Mutant: the scaled gradient is added.
SgdMatrixAdded(W, rate, dW) == MAdd(W, MScale(rate, dW))
\* W -= learning_rate * dW (lines 328-335)
SgdMatrix(W, rate, dW) == MSub(W, MScale(rate, dW))
SgdVector(v, rate, dv) == VSub(v, VScale(rate, dv))

\* The loop is over: the updates of lines 328-336.
Update ==
  /\ pc = "bptt" /\ t < 0
  /\ Why' = SgdMatrix(Why, learning_rate, dWhy)
  /\ by' = SgdVector(by, learning_rate, dby)
  /\ Wxh' = SgdMatrix(Wxh, learning_rate, dWxh)
  /\ bh' = SgdVector(bh, learning_rate, dbh)
  /\ Whh' = SgdMatrix(Whh, learning_rate, dWhh)
  /\ h0' = IF use_hidden_start THEN SgdVector(h0, learning_rate, dhnext) ELSE h0
  /\ pc' = "embed"
  /\ UNCHANGED <<config, E, trace, lists, call, fwdlocals, grads, trainargs,
                 counters, out, failure>>

\* Line 338, and the loop of line 216 counts the example.
EmbeddingUpdate ==
  /\ pc = "embed"
  /\ E' = RunBackwardLookupLayer(E, input_sequence, dx, learning_rate)
  /\ i' = i + 1
  /\ pc' = "loop"
  /\ UNCHANGED <<config, Wxh, Whh, Why, bh, by, h0, trace, lists, call, fwdlocals,
                 grads, trainargs, epoch, accuracy, accuracy_dev, accuracy_test,
                 phase, out, failure>>

(* --------------------------- specification ---------------------------- *)
Next ==
  \/ CollectAllParameters
  \/ InitializeParameters
  \/ Train
  \/ NextExample
  \/ BaselineDone
  \/ TrainEpoch
  \/ TrainReturn
  \/ SweepDone
  \/ DevDone
  \/ Report
  \/ RunReturn
  \/ Loss
  \/ ForwardLookup
  \/ ForwardStep
  \/ Readout
  \/ ReadoutEmpty
  \/ Seed
  \/ SeedEmpty
  \/ BackwardStep
  \/ Update
  \/ EmbeddingUpdate

Spec == Init /\ [][Next]_vars

(* ============================== claims ================================ *)
IsZeroV(v) == \A k \in DOMAIN v : v[k] = 0
IsZeroM(M) == \A a \in DOMAIN M : \A b \in DOMAIN M[a] : M[a][b] = 0
\* the positions 0..T-1 of a sentence
Positions(sentence) == 0..(Len(sentence) - 1)
\* the columns of E_ addressed by the tokens of a sentence
TouchedColumns(sentence) == {1 + Tok(sentence, k) : k \in Positions(sentence)}
\* the positions of RunBackwardPass
BackwardPcs == {"seed", "bptt", "embed"}
\* every id of the sentence is an id of the dictionary
IdsInDictionary(sentence) ==
  \A k \in Positions(sentence) : Tok(sentence, k) \in 0..(NumWords - 1)

\* C1: during one RunBackwardPass (which ends in RunBackwardLookupLayer) a
\* column of E_ can change only if it is the column id+1 of an id of the
\* sequence; every other column keeps its value, and so does column 0 when
\* the ids are ids of the dictionary.
C1_Step ==
  pc \in BackwardPcs =>
    /\ Rows(E') = Rows(E) /\ Cols(E') = Cols(E)
    /\ \A c \in 0..(Cols(E) - 1) :
         c \notin TouchedColumns(input_sequence) => Col(E', c) = Col(E, c)
    /\ IdsInDictionary(input_sequence) => Col(E', 0) = Col(E, 0)
C1_UpdateLocality == [][C1_Step]_vars
\* the embedding table InitializeParameters leaves
InitialE == InitialMembers(activation_function, use_hidden_start, h0).E_
\* C1 witness: the first backward pass on the one-token sequence <<0>> is over;
\* column 1 has changed, columns 0 and 2 hold their initial values.
C1_Witness ==
  /\ pc = "loop" /\ phase = "train" /\ epoch = 0 /\ i = 1
  /\ input_sequence = <<0>>
  /\ Col(E, 1) # Col(InitialE, 1)
  /\ Col(E, 0) = Col(InitialE, 0)
  /\ Col(E, 2) = Col(InitialE, 2)

\* the tokens of a sentence whose id + 1 is outside [0, V+1)
OutOfTable(sentence) ==
  {k \in Positions(sentence) : ~(Tok(sentence, k) + 1 \in 0..NumWords)}
\* C2: the forward lookup of a sequence of length T whose ids are in range
\* returns, leaves x_ with exactly T columns, column t being column
\* token[t].id + 1 of E_, and does not modify E_.
C2_Step ==
  (pc = "lookup" /\ OutOfTable(input_sequence) = {}) =>
    /\ pc' = "recur"
    /\ Rows(x') = EmbeddingDimension
    /\ Cols(x') = Len(input_sequence)
    /\ \A k \in Positions(input_sequence) :
         Col(x', k) = Col(E, Tok(input_sequence, k) + 1)
    /\ E' = E
C2_Lookup == [][C2_Step]_vars
\* C2 witness: the lookup of a two-token sequence of different ids has
\* returned two different columns.
C2_Witness ==
  /\ pc = "recur" /\ t = 0
  /\ input_sequence = <<1, 0>>
  /\ Cols(x) = 2
  /\ Col(x, 0) # Col(x, 1)

\* C3: when a token of the sequence has id + 1 outside [0, V+1), the forward
\* lookup ends the process at the first such token: no column of E_ is copied
\* for it or for a later token, and nothing runs afterwards, so the forward
\* pass of that example does not complete.
C3_Step ==
  /\ (pc = "lookup" /\ OutOfTable(input_sequence) # {}) =>
       /\ pc' = "aborted" /\ failure' = "InvalidTokenId"
       /\ t' \in OutOfTable(input_sequence)
       /\ \A k \in OutOfTable(input_sequence) : t' <= k
       /\ \A k \in Positions(input_sequence) : k >= t' => IsZeroV(Col(x', k))
       /\ y' = y /\ p' = p /\ E' = E
  /\ pc = "aborted" => FALSE
C3_InvalidTokenId == [][C3_Step]_vars
\* C3 witness: the process has died on the second token of a sequence whose
\* first token was looked up.
C3_Witness ==
  /\ pc = "aborted" /\ failure = "InvalidTokenId"
  /\ Len(input_sequence) = 2 /\ t = 1
  /\ ~IsZeroV(Col(x, 0))

\* C4: a zero-length input sequence is rejected: the forward pass on it never
\* reaches the read of h_.col(T-1) = h_.col(-1) (it neither dies in that read
\* nor gets past it), and no output distribution, loss or backward pass is
\* produced for it.
C4_DegenerateRejected ==
  Len(input_sequence) = 0 =>
    /\ pc \notin {"ran", "seed", "bptt", "embed"}
    /\ failure # "IndexOutOfRange"

\* the hidden state the recurrence starts from (lines 276-277)
StartState == IF use_hidden_start THEN h0 ELSE VZero(Rows(Whh))
\* the hidden state before timestep k
StateBefore(k) == IF k = 0 THEN StartState ELSE Col(h, k - 1)
\* column k of h_ is the activation of timestep k on the state before it
ColumnComputed(k) ==
  Col(h, k) = HiddenState(activation_function, Wxh, bh, Whh, Col(x, k), StateBefore(k))
\* C5: the forward recurrence fills h_ in increasing order of t, column 0 from
\* h0 (the zero vector when the initial state is not used) and column t from
\* column t-1; and for a sequence of length T >= 1 the logits, hence p, are
\* computed from column T-1 of h_ alone.
C5_LastTimestepReadout ==
  /\ pc = "recur" =>
       /\ \A k \in Positions(input_sequence) :
            IF k < t THEN ColumnComputed(k) ELSE IsZeroV(Col(h, k))
       /\ hprev = StateBefore(t)
  /\ (pc = "ran" /\ Len(input_sequence) >= 1) =>
       /\ \A k \in Positions(input_sequence) : ColumnComputed(k)
       /\ y = VAdd(MatVec(Why, Col(h, Len(input_sequence) - 1)), by)
       /\ p = Softmax(y)
\* C5 witness: the forward pass of a two-token sequence is over, its two
\* hidden states differ, and reading the first one would give other logits.
C5_Witness ==
  /\ pc = "ran" /\ Len(input_sequence) = 2
  /\ Col(h, 0) # Col(h, 1)
  /\ y # VAdd(MatVec(Why, Col(h, 0)), by)

\* Whh^T * draw for the only timestep of a 1-step sequence, draw being
\* Derivative(h[:,0]) times Why^T * dy elementwise
OneStepGradient ==
  MatTVec(Whh, VMul(DerivateActivation(activation_function, Col(h, 0)),
                    MatTVec(Why, dy)))
C6_Step ==
  (pc = "bptt" /\ t < 0 /\ Len(input_sequence) = 1) =>
    /\ dy = [p EXCEPT ![output_label] = @ - One]
    /\ dhnext = OneStepGradient
    /\ use_hidden_start => h0' = VSub(h0, VScale(learning_rate, OneStepGradient))
\* C6: for a 1-step sequence, the value of dhnext after the loop, which is the
\* gradient RunBackwardPass applies to h0, is Whh^T * draw with
\* draw = Derivative(h[:,0]) .* (Why^T * dy), on the Whh and Why of before the
\* update; nothing else is accumulated into it.
C6_OneStepConsistency == [][C6_Step]_vars
\* C6 witness: the loop of a 1-step backward pass is over with a non-zero
\* gradient for h0, which is in use.
C6_Witness ==
  /\ pc = "bptt" /\ t < 0 /\ Len(input_sequence) = 1
  /\ use_hidden_start
  /\ ~IsZeroV(dhnext)
  /\ ~IsZeroV(MatTVec(Why, dy))

(* The derivative of the loss -log(p[label]) along a change of the parameters,
   obtained by carrying the change forward through the recurrence of
   RunForwardPass: the limit of the finite-difference quotient.  A direction
   is a record of changes [Wxh, Whh, Why, bh, by]; the activation's local
   derivative is Derivative at the activated value and the derivative of the
   loss with respect to the logits is p - onehot(label), the vector dy. *)
UnitV(n, a) == [k \in 0..(n - 1) |-> IF k = a THEN 1 ELSE 0]
UnitM(r, c, a, b) ==
  [k \in 0..(r - 1) |-> [m \in 0..(c - 1) |-> IF k = a /\ m = b THEN 1 ELSE 0]]
NoChange ==
  [Wxh |-> MZero(Rows(Wxh), Cols(Wxh)), Whh |-> MZero(Rows(Whh), Cols(Whh)),
   Why |-> MZero(Rows(Why), Cols(Why)), bh |-> VZero(Size(bh)), by |-> VZero(Size(by))]
RECURSIVE HiddenChange(_, _)
\* the change of h[:,k] along direction d
HiddenChange(d, k) ==
  IF k < 0 THEN VZero(Rows(Whh))
  ELSE VMul(DerivateActivation(activation_function, Col(h, k)),
            VAdd(VAdd(MatVec(d.Wxh, Col(x, k)), d.bh),
                 VAdd(MatVec(d.Whh, StateBefore(k)),
                      MatVec(Whh, HiddenChange(d, k - 1)))))
\* the change of the loss along direction d
LossChange(d) ==
  LET last == Len(input_sequence) - 1
  IN  Dot(dy, VAdd(VAdd(MatVec(d.Why, Col(h, last)),
                        MatVec(Why, HiddenChange(d, last))), d.by))
\* a and b agree within 1e-4 relative error
Close(a, b) == Abs(a - b) <= Max2(Abs(a), Abs(b)) \div 10000
\* the gradients accumulated for Wxh, bh, Why and by are the derivatives
GradientsMatchExceptWhh ==
  /\ \A a \in DOMAIN Wxh : \A b \in DOMAIN Wxh[a] :
       Close(dWxh[a][b],
             LossChange([NoChange EXCEPT !.Wxh = UnitM(Rows(Wxh), Cols(Wxh), a, b)]))
  /\ \A a \in DOMAIN Why : \A b \in DOMAIN Why[a] :
       Close(dWhy[a][b],
             LossChange([NoChange EXCEPT !.Why = UnitM(Rows(Why), Cols(Why), a, b)]))
  /\ \A a \in DOMAIN bh :
       Close(dbh[a], LossChange([NoChange EXCEPT !.bh = UnitV(Size(bh), a)]))
  /\ \A a \in DOMAIN by :
       Close(dby[a], LossChange([NoChange EXCEPT !.by = UnitV(Size(by), a)]))
\* the gradient accumulated for Whh is the derivative
GradientMatchesWhh ==
  \A a \in DOMAIN Whh : \A b \in DOMAIN Whh[a] :
    Close(dWhh[a][b],
          LossChange([NoChange EXCEPT !.Whh = UnitM(Rows(Whh), Cols(Whh), a, b)]))
\* the loop of RunBackwardPass is over on a sequence of length n
GradientsReady(n) == pc = "bptt" /\ t < 0 /\ Len(input_sequence) = n
\* C7: for H=3, D_emb=2, C=2, T=2 the gradient RunBackwardPass accumulates for
\* every weight matrix and bias (Wxh, Whh, Why, bh, by) equals the derivative
\* of the loss with respect to that parameter within 1e-4 relative error, at
\* every parameter value training reaches.
C7_GradientCheck ==
  (GradientsReady(2) /\ HiddenSize = 3 /\ EmbeddingDimension = 2 /\ OutputSize = 2) =>
    GradientsMatchExceptWhh /\ GradientMatchesWhh

(* ----------------------- C8: named parameter index -------------------- *)
\* the name under which a collected member is stored
NameOf(member) ==
  CASE member = "E_" -> "embeddings"
    [] member = "Wxh_" -> "Wxh"
    [] member = "Whh_" -> "Whh"
    [] member = "Why_" -> "Why"
    [] member = "bh_" -> "bh"
    [] member = "by_" -> "by"
    [] member = "h0_" -> "h0"
\* no entry of the list occurs twice
Distinct(list) ==
  \A a \in DOMAIN list : \A b \in DOMAIN list : list[a] = list[b] => a = b
\* the four lists form the index the claim describes
NamedIndex ==
  /\ Len(weights) = Len(weight_names)
  /\ Len(biases) = Len(bias_names)
  /\ \A k \in DOMAIN weights : weight_names[k] = NameOf(weights[k])
  /\ \A k \in DOMAIN biases : bias_names[k] = NameOf(biases[k])
  /\ Distinct(weight_names \o bias_names)
  /\ weight_names = <<"embeddings", "Wxh", "Whh", "Why">>
  /\ bias_names = IF use_hidden_start THEN <<"bh", "by", "h0">> ELSE <<"bh", "by">>
C8_Step == CollectAllParameters => NamedIndex'
\* C8: after every call of RNN::CollectAllParameters, whatever the lists held
\* before, the pointer and name lists have equal lengths, entry i of a name
\* list names entry i of the pointer list, the names are pairwise distinct and
\* are always "embeddings", "Wxh", "Whh", "Why" and "bh", "by", plus "h0" when
\* the initial state is enabled.
C8_NamedParameterIndex == [][C8_Step]_vars
\* the lists were collected again into lists already filled, after a training
C8_Witness ==
  /\ NamedIndex /\ use_hidden_start
  /\ pc = "idle" /\ out # <<>> /\ IsZeroM(E) /\ Allocated

(* --------------- C9: shapes kept, values reset by Collect ------------- *)
\* M is a rows x cols matrix
HasShape(M, rows, cols) ==
  /\ DOMAIN M = 0..(rows - 1)
  /\ \A a \in DOMAIN M : DOMAIN M[a] = 0..(cols - 1)
\* every parameter has the shape fixed at construction; h0 is a parameter
\* when the initial state is enabled
ShapesAtConstruction ==
  /\ HasShape(E, EmbeddingDimension, NumWords + 1)
  /\ HasShape(Wxh, HiddenSize, EmbeddingDimension)
  /\ HasShape(Whh, HiddenSize, HiddenSize)
  /\ HasShape(Why, OutputSize, HiddenSize)
  /\ DOMAIN bh = 0..(HiddenSize - 1)
  /\ DOMAIN by = 0..(OutputSize - 1)
  /\ use_hidden_start => DOMAIN h0 = 0..(HiddenSize - 1)
\* every parameter value is zero
AllZero ==
  /\ IsZeroM(E) /\ IsZeroM(Wxh) /\ IsZeroM(Whh) /\ IsZeroM(Why)
  /\ IsZeroV(bh) /\ IsZeroV(by)
  /\ use_hidden_start => IsZeroV(h0)
\* the shapes of all parameters, as a record
Shapes ==
  [E_ |-> <<Rows(E), Cols(E)>>, Wxh_ |-> <<Rows(Wxh), Cols(Wxh)>>,
   Whh_ |-> <<Rows(Whh), Cols(Whh)>>, Why_ |-> <<Rows(Why), Cols(Why)>>,
   bh_ |-> Size(bh), by_ |-> Size(by), h0_ |-> Size(h0)]
C9_Step ==
  CollectAllParameters =>
    /\ ShapesAtConstruction' /\ AllZero'
    /\ Allocated => Shapes' = Shapes
\* C9: a call of CollectAllParameters at any point, also after training
\* steps, leaves every parameter with the shape fixed at construction (E:
\* D_emb x (V+1), Wxh: H x D_emb, Whh: H x H, Why: C x H, bh: H, by: C, and h0:
\* H where the initial state is enabled), the same shapes as after the
\* previous call, and every parameter value zero.
C9_CollectResets == [][C9_Step]_vars
\* after a training that looked up non-zero embeddings and moved h0, the
\* parameters are all zero again
C9_Witness ==
  /\ pc = "idle" /\ epoch >= 1 /\ ~IsZeroM(x) /\ ~IsZeroV(dhnext)
  /\ use_hidden_start /\ ShapesAtConstruction /\ AllZero

(* ------------------- C10: range of the initial values ----------------- *)
\* coeff of lines 154-159
Coeff == IF activation_function = "LOGISTIC" THEN 4 ELSE 1
\* every entry w of W has |w| <= coeff * sqrt(6 / (rows + cols)), squared to
\* stay in the integers
WithinMax(W) ==
  \A a \in DOMAIN W : \A b \in DOMAIN W[a] :
    W[a][b] * W[a][b] * (Rows(W) + Cols(W)) <= 6 * Coeff * Coeff
\* the postcondition of the random branch
InitialRange ==
  /\ WithinMax(E) /\ WithinMax(Wxh) /\ WithinMax(Whh) /\ WithinMax(Why)
  /\ IsZeroV(bh) /\ IsZeroV(by)
  /\ use_hidden_start => IsZeroV(h0)
  /\ Allocated
C10_Step == InitializeParameters => InitialRange'
\* C10: after InitializeParameters every entry of E, Wxh, Whh and Why lies in
\* [-max, max] with max = c*sqrt(6/(rows+cols)) of its matrix, c = 4 for the
\* logistic activation and 1 otherwise, and bh, by and (when enabled) h0 are
\* all zeros.
C10_InitialRange == [][C10_Step]_vars
\* freshly initialised, before any training: every matrix filled, weights of
\* either sign, in range, and zero biases
C10_Witness ==
  /\ pc = "idle" /\ out = <<>> /\ x = Empty /\ InitialRange
  /\ \A W \in {E, Wxh, Whh, Why} : ~IsZeroM(W)
  /\ \E W \in {E, Wxh, Whh, Why} :
       /\ \E a \in DOMAIN W : \E b \in DOMAIN W[a] : W[a][b] > 0
       /\ \E a \in DOMAIN W : \E b \in DOMAIN W[a] : W[a][b] < 0

(* --------------------------- C11: determinism -------------------------- *)
(* One example as a function: the parameters after RunForwardPass and
   RunBackwardPass on it, from the parameters m before it, and from nothing
   else.  On an empty sequence the column read at index -1 is taken as zeros. *)
RECURSIVE HiddenColumns(_, _, _, _, _)
\* h_ after the loop of lines 278-285 from timestep k on
HiddenColumns(m, X, H, hp, k) ==
  IF k >= Cols(X) THEN H
  ELSE LET c == HiddenState(activation_function, m.Wxh_, m.bh_, m.Whh_, Col(X, k), hp)
       IN  HiddenColumns(m, X, SetCol(H, k, c), c, k + 1)
\* x_ and h_ of the forward pass of a sentence
TraceOf(m, sentence) ==
  LET X == RunForwardLookupLayer(m.E_, sentence).x
      hp == IF use_hidden_start THEN m.h0_ ELSE VZero(Rows(m.Whh_))
  IN  [x |-> X, h |-> HiddenColumns(m, X, MZero(Rows(m.Whh_), Len(sentence)), hp, 0)]
\* the column of h_ lines 288 and 307 read
LastColumn(H, sentence) ==
  IF Len(sentence) = 0 THEN VZero(Rows(H)) ELSE Col(H, ReadoutIndex(sentence))
\* p_ of the forward pass of a sentence
ProbOf(m, sentence) ==
  Softmax(Logits(m.Why_, m.by_, LastColumn(TraceOf(m, sentence).h, sentence)))
RECURSIVE BackLoop(_, _, _, _)
\* the accumulators after the loop of lines 311-326 from timestep k down
BackLoop(m, f, g, k) ==
  IF k < 0 THEN g
  ELSE LET dhraw == DhRaw(activation_function, f.h, k, g.dhnext)
       IN  BackLoop(m, f,
                    [dWxh |-> MAdd(g.dWxh, Outer(dhraw, Col(f.x, k))),
                     dbh |-> VAdd(g.dbh, dhraw),
                     dWhh |-> AccumulateWhh(g.dWhh, dhraw, f.h, k),
                     dhnext |-> NextDhnext(m.Whh_, dhraw, g.dhnext),
                     dx |-> SetCol(g.dx, k, MatTVec(m.Wxh_, dhraw))],
                    k - 1)
\* the parameters after one training example
AfterExample(m, example, rate) ==
  LET f == TraceOf(m, example.seq)
      last == LastColumn(f.h, example.seq)
      d_y == SoftmaxGrad(Softmax(Logits(m.Why_, m.by_, last)), example.label)
      g == BackLoop(m, f,
                    [dWxh |-> MZero(Rows(m.Wxh_), Cols(m.Wxh_)),
                     dbh |-> VZero(Rows(m.Whh_)),
                     dWhh |-> MZero(Rows(m.Whh_), Cols(m.Whh_)),
                     dhnext |-> MatTVec(m.Why_, d_y),
                     dx |-> MZero(EmbeddingDimension, Len(example.seq))],
                    Len(example.seq) - 1)
  IN  [E_ |-> RunBackwardLookupLayer(m.E_, example.seq, g.dx, rate),
       Wxh_ |-> SgdMatrix(m.Wxh_, rate, g.dWxh),
       Whh_ |-> SgdMatrix(m.Whh_, rate, g.dWhh),
       Why_ |-> SgdMatrix(m.Why_, rate, Outer(d_y, last)),
       bh_ |-> SgdVector(m.bh_, rate, g.dbh),
       by_ |-> SgdVector(m.by_, rate, d_y),
       h0_ |-> IF use_hidden_start THEN SgdVector(m.h0_, rate, g.dhnext) ELSE m.h0_]
RECURSIVE AfterExamples(_)
\* the parameters after the first n training examples of the running Train,
\* the epochs one after the other
AfterExamples(n) ==
  IF n = 0 THEN at_call
  ELSE AfterExample(AfterExamples(n - 1), train[((n - 1) % Len(train)) + 1],
                    learning_rate)
\* the number of examples of a set that parameters m predict right
Hits(m, set) ==
  Cardinality({k \in DOMAIN set : ArgMax(ProbOf(m, set[k].seq)) = set[k].label})
\* the number of right predictions during the sweep of epoch e
TrainHits(e) ==
  Cardinality({k \in DOMAIN train :
     ArgMax(ProbOf(AfterExamples(e * Len(train) + k - 1), train[k].seq)) = train[k].label})
\* the k-th line Train writes, as a function of its arguments
ExpectedLine(k) ==
  IF k = 1
  THEN [line |-> "initial", accuracy_dev |-> <<Hits(at_call, dev), Len(dev)>>]
  ELSE LET m == AfterExamples((k - 1) * Len(train))
       IN  [line |-> "epoch", epoch |-> k - 1,
            accuracy |-> <<TrainHits(k - 2), Len(train)>>,
            accuracy_dev |-> <<Hits(m, dev), Len(dev)>>,
            accuracy_test |-> <<Hits(m, test), Len(test)>>]
\* the number of training examples the running Train is through
ExamplesDone ==
  epoch * Len(train)
    + (IF phase = "train" THEN i ELSE IF phase \in {"dev", "test"} THEN Len(train) ELSE 0)
\* Train is between two examples
BetweenExamples == at_call # <<>> /\ pc \in {"loop", "epoch"}
\* the run is where its arguments alone put it
AsArgumentsDetermine ==
  BetweenExamples =>
    /\ CurrentMembers = AfterExamples(ExamplesDone)
    /\ \A k \in DOMAIN out : out[k] = ExpectedLine(k)
DeterministicOnNonEmpty ==
  (\A k \in DOMAIN train : Len(train[k].seq) > 0) => AsArgumentsDetermine

(* ------------------------- C12: epoch phase order --------------------- *)
\* the positions inside RunForwardPass and RunBackwardPass
PassPcs == {"lookup", "recur", "ran", "seed", "bptt", "embed"}
\* the positions that can follow a position of a training example
FollowingPcs(at) ==
  CASE at = "lookup" -> {"recur", "aborted"}
    [] at = "recur" -> {"recur", "ran", "aborted"}
    [] at = "ran" -> {"seed"}
    [] at = "seed" -> {"bptt", "aborted"}
    [] at = "bptt" -> {"bptt", "embed"}
    [] at = "embed" -> {"loop"}
C12_Step ==
  /\ pc # "idle" => train' = train /\ dev' = dev /\ test' = test
  \* the sweep takes example i, counting from 0
  /\ (phase = "train" /\ pc = "loop" /\ pc' = "lookup") =>
       /\ input_sequence' = train[i + 1].seq
       /\ output_label' = train[i + 1].label
       /\ i' = i
  \* one forward pass, then at once one backward pass, on that example
  /\ (phase = "train" /\ pc \in PassPcs) =>
       /\ pc' \in FollowingPcs(pc)
       /\ input_sequence' = input_sequence /\ output_label' = output_label
       /\ phase' = phase
       /\ i' = IF pc = "embed" THEN i + 1 ELSE i
  \* dev after the last training example, test after dev, the report after test
  /\ phase' = "dev" => phase = "dev" \/ (phase = "train" /\ i = Len(train) /\ i' = 0)
  /\ phase' = "test" => phase = "test" \/ (phase = "dev" /\ i = Len(dev) /\ i' = 0)
  /\ (phase = "train" /\ phase' # "train") => phase' = "dev"
  /\ (phase = "dev" /\ phase' # "dev") => phase' = "test"
  /\ (phase = "test" /\ phase' # "test") => phase' = "none" /\ i = Len(test)
  /\ (out' # out /\ pc # "idle" /\ phase # "baseline") =>
       /\ phase = "test" /\ phase' = "none"
       /\ Len(out') = Len(out) + 1
       /\ out'[Len(out')].line = "epoch" /\ out'[Len(out')].epoch = epoch + 1
  /\ phase' = "train" /\ phase # "train" => i' = 0 /\ pc = "epoch"
\* C12: in every epoch TrainEpoch takes the training examples in index order
\* 0..N-1, runs on each one forward pass immediately followed by one backward
\* pass on that same example, and only after the last training example runs
\* the dev evaluation, then the test evaluation, then the report.
C12_EpochPhaseOrder == [][C12_Step]_vars
\* the second epoch of a training on two different examples, with a dev and a
\* test set, has been reported
C12_Witness ==
  /\ pc = "epoch" /\ epoch = 2 /\ Len(out) = 3
  /\ Len(train) = 2 /\ train[1] # train[2]
  /\ Len(dev) = 1 /\ Len(test) = 1

(* ------------------------ C13: baseline measurement ------------------- *)
C13_Step ==
  \* the initial-performance loop is entered by the call of Train only
  /\ phase' = "baseline" => phase = "baseline" \/ (pc = "idle" /\ out = <<>>)
  \* it runs on the parameters Train was called with, and no backward pass
  /\ phase = "baseline" =>
       /\ CurrentMembers = at_call /\ CurrentMembers' = at_call'
       /\ pc' \notin BackwardPcs
       /\ epoch' = 0 \/ pc # "loop" \/ pc' # "epoch"
  \* its line is the first one written, and is written once
  /\ \A k \in DOMAIN out : out[k].line = "initial" <=> k = 1
  /\ (out' # out /\ out = <<>> /\ pc # "idle") =>
       /\ phase = "baseline" /\ i = Len(dev)
       /\ out' = <<[line |-> "initial", accuracy_dev |-> <<accuracy_dev, Len(dev)>>]>>
  /\ (phase = "baseline" /\ phase' # "baseline") => Len(out) = 1
  /\ phase' = "train" => Len(out) = epoch + 1
\* C13: Train measures dev accuracy exactly once, before the first epoch and
\* hence before any backward pass has modified a parameter, and does not
\* repeat that pass between or after epochs.
C13_BaselineOnce == [][C13_Step]_vars
\* Train has returned after two epochs on a non-empty dev set: three lines,
\* the first one the initial accuracy
C13_Witness ==
  /\ pc = "idle" /\ epoch = 2 /\ num_epochs = 2 /\ Len(train) >= 1
  /\ Len(dev) = 1 /\ Len(out) = 3
  /\ out[1].line = "initial" /\ out[1].accuracy_dev[2] = 1
  /\ CurrentMembers # at_call

(* --------------------- C14: evaluation is forward-only ---------------- *)
\* the positions inside RunForwardPass and Run
ForwardPcs == {"lookup", "recur", "ran"}
\* the loops that evaluate
EvaluationPhases == {"baseline", "dev", "test"}
C14_Step ==
  \* Run and RunForwardPass, and the evaluation passes, keep the parameters
  /\ (pc \in ForwardPcs \/ phase \in EvaluationPhases) => UNCHANGED params
  \* the forward pass writes the trace and its locals, nothing else
  /\ pc \in {"lookup", "recur"} =>
       UNCHANGED <<config, lists, call, grads, trainargs, counters, out>>
  \* inside Train, parameters change in RunBackwardPass of the sweep only
  /\ (pc # "idle" /\ ~UNCHANGED params) =>
       phase = "train" /\ pc \in {"bptt", "embed"}
\* C14: Run and RunForwardPass, hence the baseline, dev and test passes, leave
\* E, Wxh, Whh, Why, bh, by and h0 unchanged and write only the forward trace;
\* parameters change only inside RunBackwardPass during the train sweep.
C14_ForwardOnly == [][C14_Step]_vars
\* a test example has been evaluated after training moved the parameters; the
\* trace is the one of that example
C14_Witness ==
  /\ pc = "loop" /\ phase = "test" /\ i = 1
  /\ CurrentMembers # at_call
  /\ input_sequence = test[1].seq /\ Cols(x) = Len(test[1].seq)
  /\ ~IsZeroM(x) /\ ~IsZeroM(h)

(* --------------------------- C15: termination ------------------------- *)
\* The statements of a running Train: one thread of control, which executes
\* its next statement whenever it has one.
Running ==
  \/ NextExample \/ BaselineDone \/ TrainEpoch \/ TrainReturn \/ SweepDone
  \/ DevDone \/ Report \/ RunReturn \/ Loss \/ ForwardLookup \/ ForwardStep
  \/ Readout \/ ReadoutEmpty \/ Seed \/ SeedEmpty \/ BackwardStep \/ Update
  \/ EmbeddingUpdate
FairSpec == Spec /\ WF_vars(Running)
\* every sequence of the set is non-empty and has its ids in the table
ValidSet(set) ==
  \A k \in DOMAIN set : Len(set[k].seq) > 0 /\ OutOfTable(set[k].seq) = {}
ValidData == ValidSet(train) /\ ValidSet(dev) /\ ValidSet(test)
\* Train has just been called, on valid data
Called == pc = "loop" /\ phase = "baseline" /\ i = 0 /\ out = <<>> /\ ValidData
\* Train has returned after num_epochs epochs, reported in order
Returned ==
  /\ pc = "idle" /\ epoch = num_epochs
  /\ Len(out) = num_epochs + 1
  /\ \A k \in 2..Len(out) : out[k].line = "epoch" /\ out[k].epoch = k - 1
C15_Step ==
  \* an epoch starts only while epochs are due, and they are counted in order
  /\ (phase' = "train" /\ phase # "train") => epoch < num_epochs /\ Len(out) = epoch + 1
  \* Train returns only when all of them are done
  /\ (pc' = "idle" /\ pc # "idle") => epoch = num_epochs /\ Len(out) = num_epochs + 1
  /\ pc # "idle" => num_epochs' = num_epochs
\* C15: for every num_epochs >= 0 and datasets of valid non-empty sequences,
\* Train eventually returns, after exactly num_epochs calls of TrainEpoch for
\* the epochs 0..num_epochs-1 in order; it never returns early and never runs
\* an extra epoch.
C15_Termination == [][C15_Step]_vars /\ (Called ~> Returned)
\* Train has returned from two epochs over two valid examples
C15_Witness ==
  /\ Returned /\ num_epochs = 2 /\ Len(train) = 2 /\ ValidData
  /\ Len(dev) = 1 /\ Len(test) = 1

(* ---------------------- C16: repeated tokens in Update ---------------- *)
RECURSIVE Contributions(_, _, _, _, _)
\* rate * dX[:,t] summed over the positions t < k of the sentence whose id + 1
\* is c, in position order
Contributions(sentence, dX, rate, c, k) ==
  IF k = 0 THEN VZero(Rows(dX))
  ELSE LET before == Contributions(sentence, dX, rate, c, k - 1)
       IN  IF WidOf(sentence, k - 1) = c
           THEN VAdd(before, VScale(rate, Col(dX, k - 1)))
           ELSE before
C16_Step ==
  pc = "embed" =>
    \A c \in 0..(Cols(E) - 1) :
      Col(E', c) = VSub(Col(E, c),
                        Contributions(input_sequence, dx, learning_rate, c,
                                      Len(input_sequence)))
\* C16: when an id occurs at several positions of a sequence,
\* RunBackwardLookupLayer subtracts rate * dX[:,t] from column id+1 once for
\* each of these positions t, so that the column ends as its old value minus
\* the sum of all of them; no occurrence is lost or overwritten.
C16_RepeatedTokens == [][C16_Step]_vars
\* the update of a sequence that names one id twice is over: both positions
\* had a non-zero dX column and both were subtracted
C16_Witness ==
  /\ pc = "loop" /\ phase = "train" /\ i >= 1
  /\ Len(input_sequence) = 2 /\ Tok(input_sequence, 0) = Tok(input_sequence, 1)
  /\ ~IsZeroV(Col(dx, 0)) /\ ~IsZeroV(Col(dx, 1))
  /\ LET c == WidOf(input_sequence, 0)
         old == Col(AfterExamples(ExamplesDone - 1).E_, c)
     IN  /\ Col(E, c) = VSub(old, VScale(learning_rate, VAdd(Col(dx, 0), Col(dx, 1))))
         /\ Col(E, c) # VSub(old, VScale(learning_rate, Col(dx, 1)))

(* ------------------ C17: update ordering in RunBackwardPass ----------- *)
\* the gradients of the loop of lines 311-326 on the present parameters and
\* forward trace
GradientsNow ==
  BackLoop(CurrentMembers, [x |-> x, h |-> h],
           [dWxh |-> MZero(Rows(Wxh), Cols(Wxh)),
            dbh |-> VZero(Rows(Whh)),
            dWhh |-> MZero(Rows(Whh), Cols(Whh)),
            dhnext |-> MatTVec(Why, SoftmaxGrad(p, output_label)),
            dx |-> MZero(EmbeddingDimension, Len(input_sequence))],
           Len(input_sequence) - 1)
\* the loop of RunBackwardPass is over
LoopOver == pc = "bptt" /\ t < 0
C17_Step ==
  \* no parameter and no part of the trace changes before the loop is over
  /\ (pc = "seed" \/ (pc = "bptt" /\ t >= 0)) => UNCHANGED <<params, trace>>
  \* so the gradients are those of the parameters the pass started with
  /\ (LoopOver /\ Len(input_sequence) > 0) =>
       /\ dy = SoftmaxGrad(p, output_label)
       /\ dWhy = Outer(dy, Col(h, Len(input_sequence) - 1)) /\ dby = dy
       /\ dWxh = GradientsNow.dWxh /\ dbh = GradientsNow.dbh
       /\ dWhh = GradientsNow.dWhh /\ dhnext = GradientsNow.dhnext
       /\ dx = GradientsNow.dx
  \* then every parameter takes its one update
  /\ LoopOver =>
       /\ Why' = MSub(Why, MScale(learning_rate, dWhy))
       /\ by' = VSub(by, VScale(learning_rate, dby))
       /\ Wxh' = MSub(Wxh, MScale(learning_rate, dWxh))
       /\ bh' = VSub(bh, VScale(learning_rate, dbh))
       /\ Whh' = MSub(Whh, MScale(learning_rate, dWhh))
       /\ h0' = IF use_hidden_start THEN VSub(h0, VScale(learning_rate, dhnext)) ELSE h0
       /\ E' = E /\ pc' = "embed"
       /\ UNCHANGED <<grads, trace>>
  \* and the embedding update is the last step
  /\ pc = "embed" =>
       /\ UNCHANGED <<Wxh, Whh, Why, bh, by, h0, grads, trace>>
       /\ E' = RunBackwardLookupLayer(E, input_sequence, dx, learning_rate)
       /\ pc' = "loop"
\* C17: all gradients of RunBackwardPass are computed from the parameters and
\* the forward trace as they were when the pass started; no parameter changes
\* until the backward-in-time loop is over; then each parameter is updated
\* once by subtracting learning_rate times its gradient, and the embedding
\* update is the last step.
C17_UpdateOrdering == [][C17_Step]_vars
\* the updates of a two-token example are done with every gradient non-zero,
\* and the embedding update is still to come
C17_Witness ==
  /\ pc = "embed" /\ Len(input_sequence) = 2
  /\ ~IsZeroM(dWhy) /\ ~IsZeroM(dWxh) /\ ~IsZeroM(dWhh) /\ ~IsZeroM(dx)
  /\ ~IsZeroV(dby) /\ ~IsZeroV(dbh) /\ ~IsZeroV(dhnext)
  /\ Whh # AfterExamples(ExamplesDone).Whh_
  /\ E = AfterExamples(ExamplesDone).E_

(* --------------- C18: the hidden-to-hidden gradient skips t = 0 ------- *)
C18_Step ==
  \* the accumulation of line 321 happens for t > 0 only
  /\ (pc = "bptt" /\ t >= 0) =>
       dWhh' = IF t > 0
               THEN MAdd(dWhh, Outer(DhRaw(activation_function, h, t, dhnext),
                                     Col(h, t - 1)))
               ELSE dWhh
  \* so a 1-step sequence gives Whh no gradient and leaves it as it is
  /\ (LoopOver /\ Len(input_sequence) = 1) => IsZeroM(dWhh)
  /\ (pc \in BackwardPcs /\ Len(input_sequence) = 1) => Whh' = Whh
\* C18: dWhh += draw * h[:,t-1]^T happens only for timesteps t > 0, so the
\* backward pass of a sequence of length 1 leaves Whh exactly unchanged,
\* whatever h0, the label and the learning rate.
C18_WhhSkipsFirstStep == [][C18_Step]_vars
\* the updates of a 1-step example are done: it started from a non-zero h0 and
\* had a non-zero dhraw, Wxh moved and Whh did not
C18_Witness ==
  /\ pc = "embed" /\ Len(input_sequence) = 1 /\ use_hidden_start
  /\ ~IsZeroV(AfterExamples(ExamplesDone).h0_)
  /\ ~IsZeroV(dbh)
  /\ Wxh # AfterExamples(ExamplesDone).Wxh_
  /\ Whh = AfterExamples(ExamplesDone).Whh_

(* -------------------------- C19: fail-fast training ------------------- *)
\* the process has died of an id outside the table while training
DiedInSweep == pc = "aborted" /\ failure = "InvalidTokenId" /\ phase = "train"
\* where a training that died of example i stands: the parameters are those
\* of the update of example i-1, and the epoch has no report
StoppedAtExample ==
  /\ input_sequence = train[i + 1].seq
  /\ (\A k \in DOMAIN train : Len(train[k].seq) > 0) =>
       CurrentMembers = AfterExamples(ExamplesDone)
  /\ Len(out) = epoch + 1
  /\ \A k \in DOMAIN out : out[k].line = "epoch" => out[k].epoch <= epoch
C19_Step ==
  \* the forward pass of an example with an id outside the table ends the
  \* process there, before anything but x_ is written
  /\ (pc = "lookup" /\ OutOfTable(input_sequence) # {}) =>
       /\ pc' = "aborted" /\ failure' = "InvalidTokenId"
       /\ UNCHANGED <<params, call, grads, trainargs, counters, out, y, p, h>>
       /\ phase = "train" => StoppedAtExample
  /\ DiedInSweep' => pc = "lookup" /\ OutOfTable(input_sequence) # {}
  \* nothing runs after that: no backward pass, no later example, no report
  /\ pc = "aborted" => UNCHANGED vars
\* C19: when the forward pass of training example i meets an invalid token id,
\* training ends there: no backward pass runs for example i, no later example
\* of any split is processed, the epoch gets no report, and every parameter
\* keeps the value it had after the update of example i-1; the example is
\* neither skipped nor retried.
C19_FailFast == [][C19_Step]_vars
\* the second example had an id outside the table: the update of the first
\* one is kept, nothing is reported for the epoch
C19_Witness ==
  /\ DiedInSweep /\ epoch = 0 /\ i = 1 /\ Len(train) = 2
  /\ OutOfTable(train[2].seq) # {} /\ OutOfTable(train[1].seq) = {}
  /\ Len(dev) = 1 /\ Len(out) = 1
  /\ CurrentMembers # at_call
  /\ CurrentMembers = AfterExamples(1)

====
